---- MODULE Spec2Model ----
(***************************************************************************)
(* Model of src/server/main.py: the extraction endpoint of the Sintrom     *)
(* report API (iniciar_extraccion) and the helpers it calls.               *)
(*                                                                         *)
(* Representation.                                                         *)
(*   - A Python str is a sequence of one-character strings, so that        *)
(*     upper/replace/strip, "in" and the regular expressions are computed  *)
(*     character by character, as the code computes them.                  *)
(*   - An Optional value is a sequence of length 0 (None) or 1 (the value).*)
(*   - A float is a fraction <<num, den>> with den > 0 (compared by cross  *)
(*     multiplication), or one of the IEEE specials Nan / Inf.  Rounding   *)
(*     of binary floating point is not modelled.                           *)
(*   - A date is <<year, month, day>>.                                     *)
(***************************************************************************)
EXTENDS Integers, Sequences, FiniteSets, TLC

VARIABLES
    document,   \* the OCR result the handler works on (result.documents[0])
    now,        \* the clock read by datetime.today() / datetime.now()
    response,   \* what iniciar_extraccion answered, or Pending
    cell_args,  \* the arguments of one parse_dose_cell call
    cell_ret,   \* its return value, or Pending
    conf_args,  \* the field confidences given to calcular_confianza_media
    conf_ret    \* its return value, or Pending

vars == <<document, now, response, cell_args, cell_ret, conf_args, conf_ret>>

\* ------------------------------------------------------------------------
\* Optional values and strings
\* ------------------------------------------------------------------------
None == <<>>
Some(x) == <<x>>
IsNone(o) == o = <<>>
IsSome(o) == o /= <<>>
Val(o) == o[1]

Pending == [kind |-> "pending"]
Idle == [kind |-> "idle"]

Digits == <<"0", "1", "2", "3", "4", "5", "6", "7", "8", "9">>
IsDigit(c) == \E i \in 1..10 : Digits[i] = c
DigitVal(c) == (CHOOSE i \in 1..10 : Digits[i] = c) - 1

\* the letters of the texts of the model, lower case and upper case
LowerCase ==
    <<"a", "b", "c", "d", "e", "f", "g", "h", "i", "j", "k", "l", "m",
      "n", "o", "p", "q", "r", "s", "t", "u", "v", "w", "x", "y", "z",
      "á", "ó">>
UpperCase ==
    <<"A", "B", "C", "D", "E", "F", "G", "H", "I", "J", "K", "L", "M",
      "N", "O", "P", "Q", "R", "S", "T", "U", "V", "W", "X", "Y", "Z",
      "Á", "Ó">>

\* str.upper(), one character
UpperChar(c) ==
    IF \E i \in 1..Len(LowerCase) : LowerCase[i] = c
    THEN UpperCase[CHOOSE i \in 1..Len(LowerCase) : LowerCase[i] = c]
    ELSE c

\* str.upper()
Upper(s) == [i \in 1..Len(s) |-> UpperChar(s[i])]

\* str.lower(), used on the RUV column labels
LowerChar(c) ==
    IF \E i \in 1..Len(LowerCase) : UpperCase[i] = c
    THEN LowerCase[CHOOSE i \in 1..Len(LowerCase) : UpperCase[i] = c]
    ELSE c

Lower(s) == [i \in 1..Len(s) |-> LowerChar(s[i])]

\* str.replace(",", ".")
CommaToDot(s) == [i \in 1..Len(s) |-> IF s[i] = "," THEN "." ELSE s[i]]

IsSpace(c) == c = " "

RECURSIVE LStrip(_)
LStrip(s) == IF s /= <<>> /\ IsSpace(s[1]) THEN LStrip(Tail(s)) ELSE s

RECURSIVE RStrip(_)
RStrip(s) ==
    IF s /= <<>> /\ IsSpace(s[Len(s)]) THEN RStrip(SubSeq(s, 1, Len(s) - 1)) ELSE s

\* str.strip()
Strip(s) == RStrip(LStrip(s))

\* s[i:].startswith(p), i counted from 1
MatchAt(s, p, i) ==
    /\ i + Len(p) - 1 <= Len(s)
    /\ \A k \in 1..Len(p) : s[i + k - 1] = p[k]

\* p in s
Contains(s, p) == \E i \in 1..(Len(s) + 1) : MatchAt(s, p, i)

\* s.replace(p, ""), p not empty: every non-overlapping occurrence, left to right
RECURSIVE Remove(_, _)
Remove(s, p) ==
    IF s = <<>> THEN <<>>
    ELSE IF MatchAt(s, p, 1) THEN Remove(SubSeq(s, Len(p) + 1, Len(s)), p)
    ELSE <<s[1]>> \o Remove(Tail(s), p)

\* the end (exclusive) of the maximal run of digits of s that starts at i
RECURSIVE DigitRunEnd(_, _)
DigitRunEnd(s, i) ==
    IF i <= Len(s) /\ IsDigit(s[i]) THEN DigitRunEnd(s, i + 1) ELSE i

\* \d{n} at position i of s
DigitsAt(s, i, n) ==
    /\ i + n - 1 <= Len(s)
    /\ \A k \in 0..(n - 1) : IsDigit(s[i + k])

\* the number a string of at most nine digits denotes
RECURSIVE ToNat(_)
ToNat(ds) ==
    IF ds = <<>> THEN 0
    ELSE 10 * ToNat(SubSeq(ds, 1, Len(ds) - 1)) + DigitVal(ds[Len(ds)])

RECURSIVE StripZeros(_)
StripZeros(ds) == IF ds /= <<>> /\ ds[1] = "0" THEN StripZeros(Tail(ds)) ELSE ds

\* lexicographic order of two strings of digits (the order of str on them)
RECURSIVE StrLess(_, _)
StrLess(a, b) ==
    IF b = <<>> THEN FALSE
    ELSE IF a = <<>> THEN TRUE
    ELSE IF a[1] /= b[1] THEN
        (IF IsDigit(a[1]) /\ IsDigit(b[1]) THEN DigitVal(a[1]) < DigitVal(b[1])
         ELSE a[1] = "-")
    ELSE StrLess(Tail(a), Tail(b))

\* ------------------------------------------------------------------------
\* Dates (datetime)
\* ------------------------------------------------------------------------
MINYEAR == 1
MAXYEAR == 9999

IsLeap(y) == (y % 4 = 0) /\ ((y % 100 /= 0) \/ (y % 400 = 0))

DaysInMonth(y, m) ==
    IF m = 2 THEN (IF IsLeap(y) THEN 29 ELSE 28)
    ELSE IF m \in {4, 6, 9, 11} THEN 30
    ELSE 31

\* datetime(y, m, d) does not raise ValueError
ValidDate(y, m, d) ==
    /\ MINYEAR <= y /\ y <= MAXYEAR
    /\ 1 <= m /\ m <= 12
    /\ 1 <= d /\ d <= DaysInMonth(y, m)

\* date < date
DateLess(a, b) ==
    \/ a[1] < b[1]
    \/ a[1] = b[1] /\ a[2] < b[2]
    \/ a[1] = b[1] /\ a[2] = b[2] /\ a[3] < b[3]

\* the decimal digits of n, zero padded to w places
RECURSIVE Pad(_, _)
Pad(n, w) == IF w = 0 THEN <<>> ELSE Pad(n \div 10, w - 1) \o <<Digits[(n % 10) + 1]>>

\* date.isoformat()
IsoFormat(d) == Pad(d[1], 4) \o <<"-">> \o Pad(d[2], 2) \o <<"-">> \o Pad(d[3], 2)

\* ------------------------------------------------------------------------
\* Configuration (main.py, lines 31-43)
\* ------------------------------------------------------------------------
DOSE_COLS == <<"LUNES", "MARTES", "MIERCOLES", "JUEVES", "VIERNES", "SÁBADO", "DOMINGO">>

\* the month abbreviations, in the order of the alternatives of the regular
\* expression of parse_dose_cell, and the number MESES_MAP gives each
MESES ==
    << <<"E", "N", "E">>, <<"F", "E", "B">>, <<"M", "A", "R">>, <<"A", "B", "R">>,
       <<"M", "A", "Y">>, <<"J", "U", "N">>, <<"J", "U", "L">>, <<"A", "G", "O">>,
       <<"S", "E", "P">>, <<"O", "C", "T">>, <<"N", "O", "V">>, <<"D", "I", "C">>,
       <<"D", "E", "C">> >>
MESES_MAP == <<1, 2, 3, 4, 5, 6, 7, 8, 9, 10, 11, 12, 12>>

\* floats
Frac(n, d) == [kind |-> "num", num |-> n, den |-> d]
Nan == [kind |-> "nan"]
Inf == [kind |-> "inf"]
NegInf == [kind |-> "-inf"]

\* x < y on floats: every comparison with NaN is false
FloatLess(x, y) ==
    IF x.kind = "nan" \/ y.kind = "nan" THEN FALSE
    ELSE IF x.kind = "inf" \/ y.kind = "-inf" THEN FALSE
    ELSE IF x.kind = "-inf" \/ y.kind = "inf" THEN TRUE
    ELSE x.num * y.den < y.num * x.den

INR_MIN_LOGICO == Frac(5, 10)
INR_MAX_LOGICO == Frac(100, 10)
\* the thresholds of iniciar_extraccion: confianza < 0.6, inr_field.confidence < 0.8
UMBRAL_CONFIANZA == Frac(6, 10)
UMBRAL_INR == Frac(8, 10)

\* the largest value of a C int: datetime() converts its arguments to C ints
\* and raises OverflowError, not ValueError, for a larger one
C_INT_MAX == <<"2", "1", "4", "7", "4", "8", "3", "6", "4", "7">>

\* ------------------------------------------------------------------------
\* extraer_data, parsear_data
\* ------------------------------------------------------------------------
\* \d{2}/\d{2}/\d{4} at position i
SlashDateAt(s, i) ==
    /\ i + 9 <= Len(s)
    /\ DigitsAt(s, i, 2) /\ s[i + 2] = "/"
    /\ DigitsAt(s, i + 3, 2) /\ s[i + 5] = "/"
    /\ DigitsAt(s, i + 6, 4)

\* \d{4}-\d{2}-\d{2} at position i
IsoDateAt(s, i) ==
    /\ i + 9 <= Len(s)
    /\ DigitsAt(s, i, 4) /\ s[i + 4] = "-"
    /\ DigitsAt(s, i + 5, 2) /\ s[i + 7] = "-"
    /\ DigitsAt(s, i + 8, 2)

\* extraer_data(texto): the leftmost DD/MM/YYYY or YYYY-MM-DD of the text
extraer_data(texto) ==
    IF IsNone(texto) \/ Val(texto) = <<>> THEN None
    ELSE LET s == Val(texto)
             hits == {i \in 1..Len(s) : SlashDateAt(s, i) \/ IsoDateAt(s, i)}
         IN IF hits = {} THEN None
            ELSE LET i == CHOOSE j \in hits : \A k \in hits : j <= k
                 IN Some(SubSeq(s, i, i + 9))

\* the parts of s between the occurrences of the character sep
RECURSIVE Split(_, _)
Split(s, sep) ==
    IF \A i \in 1..Len(s) : s[i] /= sep THEN <<s>>
    ELSE LET i == CHOOSE j \in 1..Len(s) :
                      s[j] = sep /\ \A k \in 1..(j - 1) : s[k] /= sep
         IN <<SubSeq(s, 1, i - 1)>> \o Split(SubSeq(s, i + 1, Len(s)), sep)

AllDigits(s) == \A i \in 1..Len(s) : IsDigit(s[i])

\* datetime.strptime(data, fmt) of three numeric fields: the year has four
\* digits, month and day one or two; None stands for ValueError
Strptime(y, m, d) ==
    IF /\ Len(y) = 4 /\ AllDigits(y)
       /\ Len(m) \in {1, 2} /\ AllDigits(m)
       /\ Len(d) \in {1, 2} /\ AllDigits(d)
       /\ ValidDate(ToNat(y), ToNat(m), ToNat(d))
    THEN Some(<<ToNat(y), ToNat(m), ToNat(d)>>)
    ELSE None

\* parsear_data(data_str)
parsear_data(data_str) ==
    IF IsNone(data_str) \/ Val(data_str) = <<>> THEN None
    ELSE LET data == Strip(Val(data_str))
         IN IF Contains(data, <<"-">>)
            THEN LET p == Split(data, "-")
                 IN IF Len(p) = 3 THEN Strptime(p[1], p[2], p[3]) ELSE None
            ELSE LET p == Split(data, "/")
                 IN IF Len(p) = 3 THEN Strptime(p[3], p[2], p[1]) ELSE None

\* ------------------------------------------------------------------------
\* parse_dose_cell
\* ------------------------------------------------------------------------
\* re.search("(ENE|FEB|...|DEC)", texto): the index in MESES of the leftmost
\* match, 0 when there is none
MesMatch(texto) ==
    LET hits == {i \in 1..Len(texto) : \E k \in 1..Len(MESES) : MatchAt(texto, MESES[k], i)}
    IN IF hits = {} THEN 0
       ELSE LET i == CHOOSE j \in hits : \A k \in hits : j <= k
            IN CHOOSE k \in 1..Len(MESES) : MatchAt(texto, MESES[k], i)

\* re.findall("\d+/\d+|\d+", s) from position i on
RECURSIVE FindAllFrom(_, _)
FindAllFrom(s, i) ==
    IF i > Len(s) THEN <<>>
    ELSE IF ~IsDigit(s[i]) THEN FindAllFrom(s, i + 1)
    ELSE LET e == DigitRunEnd(s, i)
             f == IF e + 1 <= Len(s) /\ s[e] = "/" /\ IsDigit(s[e + 1])
                  THEN DigitRunEnd(s, e + 1) ELSE e
         IN <<SubSeq(s, i, f - 1)>> \o FindAllFrom(s, f)

FindAll(s) == FindAllFrom(s, 1)

NoneCell == [kind |-> "None"]
OverflowCell == [kind |-> "OverflowError"]

\* a day of more digits than a C int holds
ExceedsCInt(sig) ==
    \/ Len(sig) > Len(C_INT_MAX)
    \/ Len(sig) = Len(C_INT_MAX) /\ StrLess(C_INT_MAX, sig)

\* Clasificar with the dose kept on a control cell
Clasificar_ControlKeepsDose(texto, es_control, dose) ==
    IF Contains(texto, <<"N", "O", " ", "T", "O", "M", "A", "R">>)
    THEN [dose |-> Some(<<"0">>), accion |-> "NON TOMAR"]
    ELSE IF es_control THEN [dose |-> Some(dose), accion |-> "CONTROL"]
    ELSE IF dose = <<"0">> THEN [dose |-> Some(dose), accion |-> "NON TOMAR"]
    ELSE [dose |-> Some(dose), accion |-> "TOMAR"]

\* lines 222-235: the dose and the action of the cell
Clasificar(texto, es_control, dose) ==
    IF Contains(texto, <<"N", "O", " ", "T", "O", "M", "A", "R">>)
    THEN [dose |-> Some(<<"0">>), accion |-> "NON TOMAR"]
    ELSE IF es_control THEN [dose |-> None, accion |-> "CONTROL"]
    ELSE IF dose = <<"0">> THEN [dose |-> Some(dose), accion |-> "NON TOMAR"]
    ELSE [dose |-> Some(dose), accion |-> "TOMAR"]

\* lines 237-244: the year of the cell and its date
DataCela(ano_base, mes_base, mes, dia) ==
    LET ano == IF mes_base = 12 /\ mes = 1 THEN ano_base + 1 ELSE ano_base
    IN IF ValidDate(ano, mes, dia) THEN Some(<<ano, mes, dia>>) ELSE None

parse_dose_cell(raw_text, ano_base, mes_base, dt_proxima_visita) ==
    IF IsNone(raw_text) \/ Val(raw_text) = <<>> THEN NoneCell
    ELSE
    LET texto == Strip(CommaToDot(Upper(Val(raw_text))))
        k == MesMatch(texto)
        es_control == Contains(texto, <<"C", "O", "N", "T", "R", "O", "L">>)
    IN  IF k = 0 THEN
            IF es_control /\ IsSome(dt_proxima_visita)
            THEN [kind |-> "dict",
                  data |-> IsoFormat(Val(dt_proxima_visita)),
                  dia |-> Val(dt_proxima_visita)[3],
                  dose |-> None,
                  accion |-> "CONTROL",
                  control |-> TRUE]
            ELSE NoneCell
        ELSE
        LET mes == MESES_MAP[k]
            texto_sen_mes == Strip(Remove(texto, MESES[k]))
            elementos == FindAll(texto_sen_mes)
        IN  IF elementos = <<>> THEN NoneCell
            ELSE IF ~AllDigits(elementos[1]) THEN NoneCell
            ELSE
            LET sig == StripZeros(elementos[1])
                dose == IF Len(elementos) > 1 THEN elementos[2] ELSE <<>>
                cl == Clasificar(texto, es_control, dose)
            IN  IF Len(sig) >= Len(C_INT_MAX)
                THEN (IF ExceedsCInt(sig) THEN OverflowCell ELSE NoneCell)
                ELSE
                LET dia == ToNat(sig)
                    data == DataCela(ano_base, mes_base, mes, dia)
                IN  IF IsNone(data) THEN NoneCell
                    ELSE [kind |-> "dict",
                          data |-> IsoFormat(Val(data)),
                          dia |-> dia,
                          dose |-> cl.dose,
                          accion |-> cl.accion,
                          control |-> es_control]

\* ------------------------------------------------------------------------
\* calcular_confianza_media
\* ------------------------------------------------------------------------
RECURSIVE Gcd(_, _)
Gcd(a, b) == IF b = 0 THEN a ELSE Gcd(b, a % b)

\* a fraction in lowest terms, so that equal floats are equal values
Norm(n, d) == LET g == Gcd(n, d) IN Frac(n \div g, d \div g)

FloatAdd(x, y) == Norm(x.num * y.den + y.num * x.den, x.den * y.den)

RECURSIVE FloatSum(_)
FloatSum(xs) == IF xs = <<>> THEN Frac(0, 1) ELSE FloatAdd(xs[1], FloatSum(Tail(xs)))

\* bool(field.confidence): None and 0.0 are both falsy
Truthy(c) == IsSome(c) /\ Val(c).num /= 0

\* the values of a sequence of present Optionals
Vals(os) == [i \in 1..Len(os) |-> Val(os[i])]

\* calcular_confianza_media(document), given the confidence of every field of
\* document.fields in order
calcular_confianza_media(confidences) ==
    LET confianzas == Vals(SelectSeq(confidences, Truthy))
    IN IF confianzas = <<>> THEN Frac(1, 1)
       ELSE LET t == FloatSum(confianzas)
            IN Norm(t.num, t.den * Len(confianzas))

\* ------------------------------------------------------------------------
\* One call of parse_dose_cell
\* ------------------------------------------------------------------------
\* the longest cell text, in tokens
MaxTokens == 3

\* what the OCR reads in a dosage cell: days, doses, month abbreviations and
\* the labels of the report
CellTokens ==
    { <<"2", "1">>, <<"3", "1">>, <<"0">>, <<"1", "/", "2">>,
      <<"A", "B", "R">>, <<"E", "N", "E">>, <<"f", "e", "b">>,
      <<"N", "O", " ", "T", "O", "M", "A", "R">>,
      <<"C", "O", "N", "T", "R", "O", "L">>,
      <<"2", "1", "4", "7", "4", "8", "3", "6", "4", "8">> }

\* the texts of n tokens separated by one space
RECURSIVE TextsOf(_)
TextsOf(n) ==
    IF n = 1 THEN CellTokens
    ELSE {t \o <<" ">> \o u : t \in TextsOf(n - 1), u \in CellTokens}

CellTexts == UNION {TextsOf(n) : n \in 1..MaxTokens}

\* (ano_base, mes_base) of the report, and the next-visit dates
Bases == {<<2025, 4>>, <<2025, 12>>, <<9999, 12>>}
Anchors == {None, Some(<<2025, 4, 5>>)}

CellArgs ==
    [raw_text : {None, Some(<<>>)} \cup {Some(t) : t \in CellTexts},
     base : Bases,
     dt_proxima_visita : Anchors]

InitCell ==
    /\ cell_args \in CellArgs
    /\ cell_ret = Pending
    /\ document = Idle /\ now = Idle /\ response = Idle
    /\ conf_args = Idle /\ conf_ret = Idle

ParseDoseCell ==
    /\ cell_ret = Pending
    /\ cell_ret' = parse_dose_cell(cell_args.raw_text, cell_args.base[1],
                                   cell_args.base[2], cell_args.dt_proxima_visita)
    /\ UNCHANGED <<document, now, response, cell_args, conf_args, conf_ret>>

NextCell == ParseDoseCell

SpecCell == InitCell /\ [][NextCell]_vars

\* C3: every event parse_dose_cell returns has dose None exactly when its
\* action is CONTROL (month path and anchor path alike).
C3_DoseAbsentIffControl ==
    cell_ret.kind = "dict" =>
        (IsNone(cell_ret.dose) <=> cell_ret.accion = "CONTROL")

NormText(raw_text) == Strip(CommaToDot(Upper(Val(raw_text))))

\* a control event read through the month path
C3_Witness ==
    /\ cell_ret.kind = "dict"
    /\ cell_ret.accion = "CONTROL" /\ IsNone(cell_ret.dose)
    /\ MesMatch(NormText(cell_args.raw_text)) /= 0

IsLetter(c) == \E i \in 1..Len(LowerCase) : UpperCase[i] = c

\* the text states a month: an abbreviation of the month table stands in it
\* as a word, not inside a longer word such as TOMAR
StatesMonth(texto) ==
    \E i \in 1..Len(texto), k \in 1..Len(MESES) :
        /\ MatchAt(texto, MESES[k], i)
        /\ (i = 1 \/ ~IsLetter(texto[i - 1]))
        /\ (i + 3 > Len(texto) \/ ~IsLetter(texto[i + 3]))

\* C10: a cell that states no month yields an event only when it says CONTROL
\* and an anchor date is given, and then exactly the anchor's event; otherwise
\* the result is absent.
C10_NoMonthOnlyAnchor ==
    (cell_ret.kind \in {"dict", "None", "OverflowError"}
     /\ IsSome(cell_args.raw_text)
     /\ ~StatesMonth(NormText(cell_args.raw_text))) =>
        IF /\ Contains(NormText(cell_args.raw_text), <<"C", "O", "N", "T", "R", "O", "L">>)
           /\ IsSome(cell_args.dt_proxima_visita)
        THEN cell_ret = [kind |-> "dict",
                         data |-> IsoFormat(Val(cell_args.dt_proxima_visita)),
                         dia |-> Val(cell_args.dt_proxima_visita)[3],
                         dose |-> None,
                         accion |-> "CONTROL",
                         control |-> TRUE]
        ELSE cell_ret = NoneCell

\* the month the text states: the index in MESES of the leftmost abbreviation
\* that stands in it as a word
StatedMonth(texto) ==
    LET word(i, k) == /\ MatchAt(texto, MESES[k], i)
                      /\ (i = 1 \/ ~IsLetter(texto[i - 1]))
                      /\ (i + 3 > Len(texto) \/ ~IsLetter(texto[i + 3]))
        hits == {i \in 1..Len(texto) : \E k \in 1..Len(MESES) : word(i, k)}
        i0 == CHOOSE j \in hits : \A k \in hits : j <= k
    IN CHOOSE k \in 1..Len(MESES) : word(i0, k)

\* the numeric tokens of the text once its month is taken out
ResidualTokens(texto) == FindAll(Strip(Remove(texto, MESES[StatedMonth(texto)])))

\* C11: a cell that states a month and whose first numeric token is a plain
\* integer yields the event dated (year, month, day), month the number of the
\* abbreviation, day the first token, year ano_base + 1 exactly when mes_base
\* is 12 and the month is 1; the result is absent exactly when that date cannot
\* be constructed or when the first numeric token is a fraction.
C11_MonthCellDate ==
    (/\ cell_ret.kind \in {"dict", "None", "OverflowError"}
     /\ IsSome(cell_args.raw_text)
     /\ StatesMonth(NormText(cell_args.raw_text))
     /\ ResidualTokens(NormText(cell_args.raw_text)) /= <<>>) =>
        LET texto == NormText(cell_args.raw_text)
            first == ResidualTokens(texto)[1]
            month == MESES_MAP[StatedMonth(texto)]
            year == IF cell_args.base[2] = 12 /\ month = 1
                    THEN cell_args.base[1] + 1 ELSE cell_args.base[1]
            digits == StripZeros(first)
        IN IF ~AllDigits(first) THEN cell_ret = NoneCell
           ELSE IF Len(digits) > 2 THEN cell_ret = NoneCell
           ELSE IF ~ValidDate(year, month, ToNat(digits)) THEN cell_ret = NoneCell
           ELSE /\ cell_ret.kind = "dict"
                /\ cell_ret.data = IsoFormat(<<year, month, ToNat(digits)>>)
                /\ cell_ret.dia = ToNat(digits)

\* an integer or a fraction, written out: digits, or digits "/" digits
IsQuantity(s) ==
    \/ s /= <<>> /\ AllDigits(s)
    \/ \E i \in 2..(Len(s) - 1) :
          /\ s[i] = "/"
          /\ AllDigits(SubSeq(s, 1, i - 1))
          /\ AllDigits(SubSeq(s, i + 1, Len(s)))

\* C13: every event whose action is TOMAR carries a dose that is a non-empty
\* integer or fraction, the second numeric token of the cell; a cell with a
\* month and a single numeric token yields no TOMAR event with an empty or
\* missing dose.
C13_TakeHasDose ==
    (cell_ret.kind = "dict" /\ cell_ret.accion = "TOMAR") =>
        /\ IsSome(cell_ret.dose)
        /\ IsQuantity(Val(cell_ret.dose))
        /\ Len(FindAll(NormText(cell_args.raw_text))) >= 2
        /\ Val(cell_ret.dose) = FindAll(NormText(cell_args.raw_text))[2]

\* ------------------------------------------------------------------------
\* One call of calcular_confianza_media
\* ------------------------------------------------------------------------
\* the most fields a document carries
MaxFields == 3

\* field.confidence: absent, or a score in tenths
ConfValues == {None} \cup {Some(Frac(k, 10)) : k \in {0, 5, 7, 9, 10}}

RECURSIVE SeqsOf(_, _)
SeqsOf(S, n) ==
    IF n = 0 THEN {<<>>}
    ELSE {<<x>> \o t : x \in S, t \in SeqsOf(S, n - 1)}

ConfArgs == UNION {SeqsOf(ConfValues, n) : n \in 0..MaxFields}

InitConf ==
    /\ conf_args \in ConfArgs
    /\ conf_ret = Pending
    /\ document = Idle /\ now = Idle /\ response = Idle
    /\ cell_args = Idle /\ cell_ret = Idle

CalcularConfianzaMedia ==
    /\ conf_ret = Pending
    /\ conf_ret' = calcular_confianza_media(conf_args)
    /\ UNCHANGED <<document, now, response, cell_args, cell_ret, conf_args>>

NextConf == CalcularConfianzaMedia

SpecConf == InitConf /\ [][NextConf]_vars

FloatEq(x, y) == x.num * y.den = y.num * x.den

\* C5: the result is the arithmetic mean of every score that is present (0.0
\* included), and 1.0 only when no field carries a score.
C5_MeanOfPresentScores ==
    conf_ret.kind = "num" =>
        LET present == Vals(SelectSeq(conf_args, IsSome))
        IN IF present = <<>> THEN FloatEq(conf_ret, Frac(1, 1))
           ELSE LET t == FloatSum(present)
                IN FloatEq(conf_ret, Frac(t.num, t.den * Len(present)))

\* ------------------------------------------------------------------------
\* iniciar_extraccion
\* ------------------------------------------------------------------------
\* A document is a record of its fields, each absent (None) or present:
\*   scalar field   [content : Optional str, confidence : Optional float]
\*   table field    [confidence, value_array : Optional sequence of rows]
\*   row            [value_object : Optional mapping]
\*   DOSE mapping   column label -> Optional cell, cell = [content : Optional str]
\*   RUV mapping    the sequence of its items <<label, Optional cell>>
\* "farmaco oral" stands for the scalar fields the handler only copies to the
\* header ("farmaco oral", "dosis semanal", "centro visita"): they reach the
\* gates through their confidence alone.
FieldNames == <<"fecha visita", "prox visit", "inr", "farmaco oral", "DOSE", "RUV">>

\* document.fields.get(name)
Get(doc, name) == doc[name]

\* [field.confidence for field in document.fields.values()]
Confidences(doc) ==
    LET present == SelectSeq(FieldNames, LAMBDA n : IsSome(doc[n]))
    IN [i \in 1..Len(present) |-> Val(doc[present[i]]).confidence]

\* get_text(field_name)
get_text(doc, name) == IF IsSome(doc[name]) THEN Val(doc[name]).content ELSE None

HTTPException(status, detail) ==
    [kind |-> "HTTPException", status |-> status, detail |-> detail]

\* line 488 compares data_celda.date, a bound method, with dt_prox.date(), a
\* date: the two are never equal, so != is true whatever the dates are
DataCelaDistinta(data_celda, dt_prox) == TRUE

\* Reconciliar with the date overwritten and the day of the cell kept
Reconciliar_KeepsDia(datos, dt_prox, dia_sem) ==
    LET cambia == datos.control /\ IsSome(dt_prox)
    IN [data |-> IF cambia THEN IsoFormat(Val(dt_prox)) ELSE datos.data,
        dia |-> datos.dia,
        dose |-> datos.dose,
        accion |-> datos.accion,
        control |-> datos.control,
        diaSemanaTexto |-> dia_sem,
        aviso |-> cambia]

\* Reconciliar without the test of the control flag: every event is moved
Reconciliar_MovesAll(datos, dt_prox, dia_sem) ==
    LET cambia == IsSome(dt_prox)
    IN [data |-> IF cambia THEN IsoFormat(Val(dt_prox)) ELSE datos.data,
        dia |-> IF cambia THEN Val(dt_prox)[3] ELSE datos.dia,
        dose |-> datos.dose,
        accion |-> datos.accion,
        control |-> datos.control,
        diaSemanaTexto |-> dia_sem,
        aviso |-> cambia]

\* lines 486-495: one parsed cell, reconciled and labelled.  aviso tells
\* whether the warning of line 489 was logged.
Reconciliar(datos, dt_prox, dia_sem) ==
    LET cambia == /\ datos.control /\ IsSome(dt_prox)
                  /\ DataCelaDistinta(Val(parsear_data(Some(datos.data))), Val(dt_prox))
    IN [data |-> IF cambia THEN IsoFormat(Val(dt_prox)) ELSE datos.data,
        dia |-> IF cambia THEN Val(dt_prox)[3] ELSE datos.dia,
        dose |-> datos.dose,
        accion |-> datos.accion,
        control |-> datos.control,
        diaSemanaTexto |-> dia_sem,
        aviso |-> cambia]

\* if fila.value_object: None and the empty mapping are both falsy
RowTruthy(fila) ==
    IsSome(fila.value_object) /\ DOMAIN Val(fila.value_object) /= {}

\* fila.value_object.get(dia_sem)
CellOf(fila, dia_sem) ==
    IF dia_sem \in DOMAIN Val(fila.value_object) THEN Val(fila.value_object)[dia_sem] ELSE None

\* lines 478-483: the cells the two loops visit, in the order they visit them
RECURSIVE CellsOfRow(_, _)
CellsOfRow(fila, j) ==
    IF j > Len(DOSE_COLS) THEN <<>>
    ELSE (IF IsSome(CellOf(fila, DOSE_COLS[j]))
          THEN <<[content |-> Val(CellOf(fila, DOSE_COLS[j])).content, dia_sem |-> DOSE_COLS[j]]>>
          ELSE <<>>) \o CellsOfRow(fila, j + 1)

RECURSIVE CellsOfTable(_)
CellsOfTable(value_array) ==
    IF value_array = <<>> THEN <<>>
    ELSE (IF RowTruthy(value_array[1]) THEN CellsOfRow(value_array[1], 1) ELSE <<>>)
         \o CellsOfTable(Tail(value_array))

\* lines 484-495 over the visited cells: lista_doses, or the exception that
\* leaves parse_dose_cell
RECURSIVE Percorrer(_, _, _, _, _)
Percorrer(cells, ano_actual, mes_actual, dt_prox, lista_doses) ==
    IF cells = <<>> THEN [kind |-> "ok", lista_doses |-> lista_doses]
    ELSE LET datos == parse_dose_cell(cells[1].content, ano_actual, mes_actual, dt_prox)
         IN IF datos.kind = "OverflowError" THEN [kind |-> "raise", error |-> "OverflowError"]
            ELSE Percorrer(Tail(cells), ano_actual, mes_actual, dt_prox,
                           IF datos.kind = "dict"
                           THEN Append(lista_doses, Reconciliar(datos, dt_prox, cells[1].dia_sem))
                           ELSE lista_doses)

\* lines 476-495
TaboaDose(doc, ano_actual, mes_actual, dt_prox) ==
    LET campo_dose == Get(doc, "DOSE")
    IN IF IsSome(campo_dose) /\ IsSome(Val(campo_dose).value_array)
       THEN Percorrer(CellsOfTable(Val(Val(campo_dose).value_array)),
                      ano_actual, mes_actual, dt_prox, <<>>)
       ELSE [kind |-> "ok", lista_doses |-> <<>>]

\* list.sort(key=lambda x: x['data']): a stable sort on the ISO strings
RECURSIVE Insert(_, _)
Insert(sorted, x) ==
    IF sorted = <<>> THEN <<x>>
    ELSE IF StrLess(x.data, sorted[Len(sorted)].data)
    THEN Append(Insert(SubSeq(sorted, 1, Len(sorted) - 1), x), sorted[Len(sorted)])
    ELSE Append(sorted, x)

\* the list left in the order of the table
SortByData_Unsorted(xs) == xs

RECURSIVE SortByData(_)
SortByData(xs) ==
    IF xs = <<>> THEN <<>>
    ELSE Insert(SortByData(SubSeq(xs, 1, Len(xs) - 1)), xs[Len(xs)])

\* lines 507-521, in the order of the dictionary
mapa_columnas ==
    << <<<<"f", "e", "c", "h", "a">>, "data">>,
       <<<<"i", "n", "r">>, "inr">>,
       <<<<"f", "á", "r", "m", "a", "c", "o", " ", "a", "v", "k">>, "farmaco">>,
       <<<<"f", "a", "r", "m", "a", "c", "o", " ", "a", "v", "k">>, "farmaco">>,
       <<<<"d", "o", "s", "i", "s">>, "dose">>,
       <<<<"a", "p", "t", "t", " ", "i", "n", "y", "e", "c", "t", "a", "b", "l", "e">>, "apttInyectable">>,
       <<<<"a", "p", "t", "t">>, "apttInyectable">>,
       <<<<"d", "o", "s", "i", "s", " ", "i", "n", "y">>, "doseInyectable">>,
       <<<<"i", "n", "y", "e", "c", "t", "a", "b", "l", "e">>, "doseInyectable">>,
       <<<<"p", "r", "ó", "x", ".", " ", "v", "i", "s", "i", "t", "a">>, "proximaVisita">>,
       <<<<"p", "r", "ó", "x", " ", "v", "i", "s", "i", "t", "a">>, "proximaVisita">>,
       <<<<"p", "r", "o", "x", " ", "v", "i", "s", "i", "t", "a">>, "proximaVisita">>,
       <<<<"c", "o", "m", "e", "n", "t", "a", "r", "i", "o", "s">>, "comentarios">> >>

CamposHistorico ==
    {"data", "inr", "farmaco", "dose", "apttInyectable", "doseInyectable",
     "proximaVisita", "comentarios"}

\* if not val_azure: continue -- a cell object is falsy only when it is None
ValTruthy(val_azure) == IsSome(val_azure)

\* lines 530-537: datos_fila, a mapping from the canonical names met to contents
RECURSIVE DatosFila(_, _)
DatosFila(items, datos_fila) ==
    IF items = <<>> THEN datos_fila
    ELSE LET key_azure == items[1][1]
             val_azure == items[1][2]
             clave_limpa == Strip(Lower(key_azure))
             hits == {k \in 1..Len(mapa_columnas) : mapa_columnas[k][1] = clave_limpa}
         IN IF ValTruthy(val_azure) /\ hits /= {}
            THEN LET campo_pydantic == mapa_columnas[CHOOSE k \in hits : TRUE][2]
                 IN DatosFila(Tail(items),
                              [c \in DOMAIN datos_fila \cup {campo_pydantic} |->
                                  IF c = campo_pydantic THEN Val(val_azure).content
                                  ELSE datos_fila[c]])
            ELSE DatosFila(Tail(items), datos_fila)

\* ItemHistorico(**datos_fila): the fields not given are None
ItemHistorico(datos_fila) ==
    [c \in CamposHistorico |-> IF c \in DOMAIN datos_fila THEN datos_fila[c] ELSE None]

\* line 540
GardarFila(datos_fila) == "data" \in DOMAIN datos_fila \/ "inr" \in DOMAIN datos_fila

\* lines 523-541
RECURSIVE FilasRuv(_)
FilasRuv(value_array) ==
    IF value_array = <<>> THEN <<>>
    ELSE LET fila == value_array[1]
             datos_fila == IF IsSome(fila.value_object) /\ Val(fila.value_object) /= <<>>
                           THEN DatosFila(Val(fila.value_object), <<>>)
                           ELSE <<>>
         IN (IF GardarFila(datos_fila) THEN <<ItemHistorico(datos_fila)>> ELSE <<>>)
            \o FilasRuv(Tail(value_array))

TaboaRuv(doc) ==
    LET campo_ruv == Get(doc, "RUV")
    IN IF IsSome(campo_ruv) /\ IsSome(Val(campo_ruv).value_array)
       THEN FilasRuv(Val(Val(campo_ruv).value_array))
       ELSE <<>>

\* float(s) on the texts of the model: an optional sign, then nan, inf,
\* infinity or a decimal numeral; None stands for ValueError.  Exponents and
\* digit-group underscores are outside the texts of the model.
ParseFloat(s) ==
    LET t == Strip(s)
        signed == t /= <<>> /\ t[1] \in {"+", "-"}
        neg == t /= <<>> /\ t[1] = "-"
        body == Lower(IF signed THEN Tail(t) ELSE t)
        p == Split(body, ".")
    IN IF body = <<"n", "a", "n">> THEN Some(Nan)
       ELSE IF body \in {<<"i", "n", "f">>, <<"i", "n", "f", "i", "n", "i", "t", "y">>}
       THEN Some(IF neg THEN NegInf ELSE Inf)
       ELSE IF Len(p) = 1 /\ p[1] /= <<>> /\ AllDigits(p[1])
       THEN Some(Frac((IF neg THEN -1 ELSE 1) * ToNat(p[1]), 1))
       ELSE IF /\ Len(p) = 2 /\ AllDigits(p[1]) /\ AllDigits(p[2])
               /\ (p[1] /= <<>> \/ p[2] /= <<>>)
       THEN Some(Frac((IF neg THEN -1 ELSE 1) * ToNat(p[1] \o p[2]),
                      ToNat(<<"1">> \o [i \in 1..Len(p[2]) |-> "0"])))
       ELSE None

\* lines 543-567: "ok", the rejection raised, or the exception that escapes
ValidarInr(doc) ==
    LET inr_texto == get_text(doc, "inr")
        inr_field == Get(doc, "inr")
    IN IF IsNone(inr_texto) \/ Val(inr_texto) = <<>> THEN [kind |-> "ok"]
       ELSE LET inr_valor == ParseFloat(Strip(CommaToDot(Val(inr_texto))))
            IN IF IsNone(inr_valor) THEN HTTPException(400, "InvalidInrFormat")
               ELSE IF \/ FloatLess(Val(inr_valor), INR_MIN_LOGICO)
                       \/ FloatLess(INR_MAX_LOGICO, Val(inr_valor))
               THEN HTTPException(400, "InrOutOfRange")
               ELSE IF IsNone(Val(inr_field).confidence)
               THEN [kind |-> "raise", error |-> "TypeError"]
               ELSE IF FloatLess(Val(Val(inr_field).confidence), UMBRAL_INR)
               THEN HTTPException(400, "LowInrConfidence")
               ELSE [kind |-> "ok"]

\* lines 604-609: any other exception becomes a 500
ErroInterno(error) == [kind |-> "HTTPException", status |-> 500, detail |-> error]

\* lines 579-588
DoseDia(d) ==
    [data |-> d.data, dia |-> d.dia, dose |-> d.dose, accion |-> d.accion,
     eControl |-> d.control, diaSemanaTexto |-> d.diaSemanaTexto]

\* lines 430-439: the report date and the (year, month) base of the table
DataInforme(doc, reloxo) ==
    LET campo == Get(doc, "fecha visita")
        campo_data_raw == IF IsSome(campo) THEN Val(campo).content ELSE Some(<<>>)
        data_informe_limpa == extraer_data(campo_data_raw)
        dt == parsear_data(data_informe_limpa)
    IN [data_informe_limpa |-> data_informe_limpa,
        ano_actual |-> IF IsSome(dt) THEN Val(dt)[1] ELSE reloxo[1],
        mes_actual |-> IF IsSome(dt) THEN Val(dt)[2] ELSE reloxo[2],
        dt_informe |-> IF IsSome(dt) THEN Val(dt) ELSE reloxo]

\* the visit gate with <= for <
VisitaAnterior_OrEqual(dt_prox, dt_informe) ==
    IsSome(dt_prox) /\ ~DateLess(dt_informe, Val(dt_prox))

\* lines 450-451
VisitaAnterior(dt_prox, dt_informe) == IsSome(dt_prox) /\ DateLess(Val(dt_prox), dt_informe)

\* lines 569-594
AnalisisResponse(doc, confianza, inf, prox_visit_limpa, lista_doses) ==
    [kind |-> "AnalisisResponse",
     status |-> 200,
     cabeceira |-> [dataInforme |-> inf.data_informe_limpa,
                    inr |-> get_text(doc, "inr"),
                    farmaco |-> get_text(doc, "farmaco oral"),
                    proximaVisita |-> prox_visit_limpa],
     calendario |-> [i \in 1..Len(lista_doses) |-> DoseDia(lista_doses[i])],
     historico |-> TaboaRuv(doc),
     metadatos |-> [confianzaGlobal |-> confianza],
     \* not part of the answer: whether line 489 logged its warning for the event
     avisos |-> [i \in 1..Len(lista_doses) |-> lista_doses[i].aviso]]

\* the handler with the INR validated before the dosage table is read
iniciar_extraccion_InrFirst(doc, reloxo) ==
    LET confianza == calcular_confianza_media(Confidences(doc))
        inf == DataInforme(doc, reloxo)
        prox_visit_limpa == extraer_data(get_text(doc, "prox visit"))
        dt_prox == parsear_data(prox_visit_limpa)
        taboa == TaboaDose(doc, inf.ano_actual, inf.mes_actual, dt_prox)
        inr == ValidarInr(doc)
    IN IF FloatLess(confianza, UMBRAL_CONFIANZA)
       THEN HTTPException(400, "LowGlobalConfidence")
       ELSE IF VisitaAnterior(dt_prox, inf.dt_informe)
       THEN HTTPException(400, "InconsistentVisitDates")
       ELSE IF inr.kind = "raise" THEN ErroInterno(inr.error)
       ELSE IF inr.kind = "HTTPException" THEN inr
       ELSE IF taboa.kind = "raise" THEN ErroInterno(taboa.error)
       ELSE IF taboa.lista_doses = <<>> THEN HTTPException(400, "EmptyCalendar")
       ELSE AnalisisResponse(doc, confianza, inf, prox_visit_limpa,
                             SortByData(taboa.lista_doses))

\* lines 421-609, from document = result.documents[0] on
iniciar_extraccion(doc, reloxo) ==
    LET confianza == calcular_confianza_media(Confidences(doc))
        inf == DataInforme(doc, reloxo)
        prox_visit_limpa == extraer_data(get_text(doc, "prox visit"))
        dt_prox == parsear_data(prox_visit_limpa)
        taboa == TaboaDose(doc, inf.ano_actual, inf.mes_actual, dt_prox)
        inr == ValidarInr(doc)
    IN IF FloatLess(confianza, UMBRAL_CONFIANZA)
       THEN HTTPException(400, "LowGlobalConfidence")
       ELSE IF VisitaAnterior(dt_prox, inf.dt_informe)
       THEN HTTPException(400, "InconsistentVisitDates")
       ELSE IF taboa.kind = "raise" THEN ErroInterno(taboa.error)
       ELSE IF taboa.lista_doses = <<>> THEN HTTPException(400, "EmptyCalendar")
       ELSE IF inr.kind = "raise" THEN ErroInterno(inr.error)
       ELSE IF inr.kind = "HTTPException" THEN inr
       ELSE AnalisisResponse(doc, confianza, inf, prox_visit_limpa,
                             SortByData(taboa.lista_doses))

\* ------------------------------------------------------------------------
\* One request
\* ------------------------------------------------------------------------
Field(content, confidence) == [content |-> content, confidence |-> confidence]
Table(value_array) == [confidence |-> None, value_array |-> value_array]
Cell(content) == [content |-> content]
Row(value_object) == [value_object |-> value_object]

Doc(fecha, prox, inr, farmaco, dose, ruv) ==
    [n \in {"fecha visita", "prox visit", "inr", "farmaco oral", "DOSE", "RUV"} |->
        CASE n = "fecha visita" -> fecha
          [] n = "prox visit" -> prox
          [] n = "inr" -> inr
          [] n = "farmaco oral" -> farmaco
          [] n = "DOSE" -> dose
          [] n = "RUV" -> ruv]

\* the clock of the server
Clocks == {<<2025, 3, 10>>}

\* the most cells a dosage table of the model holds
MaxCells == 3

\* the columns the dosage tables of the model fill, row by row
TableCols == <<"LUNES", "JUEVES">>

\* what a dosage cell holds: nothing, or one of these texts
CellOpts ==
    { None,
      Some(Cell(Some(<<"2", "1", " ", "1", " ", "A", "B", "R">>))),
      Some(Cell(Some(<<"3", " ", "1", "/", "2", " ", "E", "N", "E">>))),
      Some(Cell(Some(<<"C", "O", "N", "T", "R", "O", "L">>))),
      Some(Cell(Some(<<"2", "5", " ", "A", "B", "R", " ", "C", "O", "N", "T", "R", "O", "L">>))),
      Some(Cell(Some(<<"3", "1", " ", "1", " ", "A", "B", "R">>))),
      Some(Cell(Some(<<"2", "1", "4", "7", "4", "8", "3", "6", "4", "8", " ", "1", " ", "A", "B", "R">>))),
      Some(Cell(Some(<<"2", "1", " ", "0", " ", "A", "B", "R", " ", "N", "O", " ", "T", "O", "M", "A", "R", " ", "C", "O", "N", "T", "R", "O", "L">>))) }

\* the rows that hold the cells in order, Len(TableCols) to a row; an absent
\* cell is a column the row does not have
RECURSIVE RowsOf(_)
RowsOf(cells) ==
    IF cells = <<>> THEN <<>>
    ELSE LET n == IF Len(cells) < Len(TableCols) THEN Len(cells) ELSE Len(TableCols)
             cols == {TableCols[i] : i \in {j \in 1..n : IsSome(cells[j])}}
             vo == [c \in cols |-> cells[CHOOSE i \in 1..n : TableCols[i] = c]]
         IN <<Row(Some(vo))>> \o RowsOf(SubSeq(cells, n + 1, Len(cells)))

DoseTables ==
    {Some(Table(Some(RowsOf(cs)))) :
        cs \in UNION {SeqsOf(CellOpts, n) : n \in 0..MaxCells}}

GoodDose == Some(Table(Some(RowsOf(<<Some(Cell(Some(<<"2", "1", " ", "1", " ", "A", "B", "R">>)))>>))))
GoodInr == Some(Field(Some(<<"2", ",", "5">>), Some(Frac(9, 10))))
Conf9 == Some(Frac(9, 10))

\* documents that differ in their dosage table, with a report date in January
\* or in December and a next visit after it or none
CalendarDocs ==
    {Doc(fp[1], fp[2], GoodInr, None, t, None) :
        fp \in { <<Some(Field(Some(<<"1", "4", "/", "0", "1", "/", "2", "0", "2", "5">>), Conf9)), None>>,
                 <<Some(Field(Some(<<"1", "4", "/", "0", "1", "/", "2", "0", "2", "5">>), Conf9)), Some(Field(Some(<<"0", "5", "/", "0", "4", "/", "2", "0", "2", "5">>), Conf9))>>,
                 <<Some(Field(Some(<<"2", "0", "2", "5", "-", "1", "2", "-", "3", "0">>), Conf9)), None>>,
                 <<Some(Field(Some(<<"2", "0", "2", "5", "-", "1", "2", "-", "3", "0">>), Conf9)), Some(Field(Some(<<"C", "i", "t", "a", " ", "2", "0", "2", "6", "-", "0", "1", "-", "0", "3">>), Conf9))>> },
        t \in DoseTables}

\* documents that differ in what the gates read
GateDocs ==
    {Doc(f, p, i, m, t, None) :
        f \in { None,
                Some(Field(Some(<<"1", "4", "/", "0", "1", "/", "2", "0", "2", "5">>), Conf9)),
                Some(Field(Some(<<"1", "4", "/", "0", "1", "/", "2", "0", "2", "5">>), Some(Frac(2, 10)))),
                Some(Field(Some(<<"3", "1", "/", "0", "4", "/", "2", "0", "2", "5">>), Conf9)) },
        p \in { None,
                Some(Field(Some(<<"0", "5", "/", "0", "4", "/", "2", "0", "2", "5">>), Conf9)),
                Some(Field(Some(<<"0", "1", "/", "0", "1", "/", "2", "0", "2", "5">>), Conf9)),
                Some(Field(Some(<<"1", "4", "/", "0", "1", "/", "2", "0", "2", "5">>), Conf9)),
                Some(Field(Some(<<"1", "0", "/", "0", "3", "/", "2", "0", "2", "5">>), Conf9)),
                Some(Field(Some(<<"3", "1", "/", "0", "2", "/", "2", "0", "2", "5">>), Conf9)) },
        i \in { None,
                Some(Field(None, Conf9)),
                Some(Field(Some(<<>>), Conf9)),
                Some(Field(Some(<<"2", ",", "5">>), Some(Frac(95, 100)))),
                Some(Field(Some(<<"2", ",", "5">>), Some(Frac(5, 10)))),
                Some(Field(Some(<<"2", ",", "5">>), None)),
                Some(Field(Some(<<" ", "0", ".", "5", " ">>), Some(Frac(8, 10)))),
                Some(Field(Some(<<"1", "0", ",", "0">>), Conf9)),
                Some(Field(Some(<<"0", ",", "4">>), Conf9)),
                Some(Field(Some(<<"1", "1", ",", "0">>), Conf9)),
                Some(Field(Some(<<"1", "1", ",", "0">>), Some(Frac(5, 10)))),
                Some(Field(Some(<<"a", "b", "c">>), Conf9)),
                Some(Field(Some(<<"a", "b", "c">>), None)),
                Some(Field(Some(<<"n", "a", "n">>), Conf9)) },
        m \in { None,
                Some(Field(Some(<<"S", "i", "n", "t", "r", "o", "m">>), None)),
                Some(Field(Some(<<"S", "i", "n", "t", "r", "o", "m">>), Some(Frac(0, 10)))),
                Some(Field(Some(<<"S", "i", "n", "t", "r", "o", "m">>), Some(Frac(1, 10)))) },
        t \in { None,
                Some(Table(None)),
                GoodDose,
                Some(Table(Some(RowsOf(<<Some(Cell(Some(<<"3", "1", " ", "1", " ", "A", "B", "R">>)))>>)))),
                Some(Table(Some(RowsOf(<<Some(Cell(Some(<<"2", "1", " ", "1", " ", "A", "B", "R">>))),
                                         Some(Cell(Some(<<"2", "1", "4", "7", "4", "8", "3", "6", "4", "8", " ", "1", " ", "A", "B", "R">>)))>>)))),
                Some(Table(Some(RowsOf(<<Some(Cell(Some(<<"2", "1", "4", "7", "4", "8", "3", "6", "4", "8", " ", "1", " ", "A", "B", "R">>)))>>)))) }}

\* the most items a row of the historical table holds
MaxRuvItems == 2

\* an item of a historical row: a column label and its cell, which may be None,
\* or hold no content, empty content or a text
RuvItems ==
    {<<k, v>> :
        k \in {<<"F", "e", "c", "h", "a">>, <<" ", "I", "N", "R">>, <<"C", "o", "m", "e", "n", "t", "a", "r", "i", "o", "s">>},
        v \in {None, Some(Cell(None)), Some(Cell(Some(<<>>))), Some(Cell(Some(<<"4", ",", "5">>)))}}

\* the items of a row are those of a mapping: no label twice
RuvRows ==
    {Row(Some(r)) :
        r \in {q \in UNION {SeqsOf(RuvItems, n) : n \in 0..MaxRuvItems} :
                  \A i, j \in 1..Len(q) : i /= j => q[i][1] /= q[j][1]}}

FullRuvRow ==
    Row(Some(<< <<<<"F", "e", "c", "h", "a">>, Some(Cell(Some(<<"2", "0", "/", "0", "3", "/", "2", "0", "1", "8">>)))>>,
                <<<<"I", "N", "R">>, Some(Cell(Some(<<"4", ",", "5">>)))>>,
                <<<<"P", "r", "ó", "x", ".", " ", "V", "i", "s", "i", "t", "a">>, Some(Cell(Some(<<"2", "7", "/", "0", "3", "/", "2", "0", "1", "8">>)))>> >>))

RuvTables ==
    {None, Some(Table(None)), Some(Table(Some(<<Row(None)>>)))}
    \cup {Some(Table(Some(<<r>>))) : r \in RuvRows}
    \cup {Some(Table(Some(<<r, FullRuvRow>>))) : r \in RuvRows}
    \cup {Some(Table(Some(<<FullRuvRow, r>>))) : r \in RuvRows}

\* documents that differ in their historical table
RuvDocs ==
    {Doc(Some(Field(Some(<<"1", "4", "/", "0", "1", "/", "2", "0", "2", "5">>), Conf9)), None, GoodInr, None, GoodDose, r) :
        r \in RuvTables}

\* documents whose dosage table holds a control cell that states the very date
\* of the next visit (5 April), alone or beside another cell, with the next
\* visit read or not
ControlDocs ==
    {Doc(Some(Field(Some(<<"1", "4", "/", "0", "1", "/", "2", "0", "2", "5">>), Conf9)), p, GoodInr, None,
         Some(Table(Some(RowsOf(cs)))), None) :
        p \in { None,
                Some(Field(Some(<<"0", "5", "/", "0", "4", "/", "2", "0", "2", "5">>), Conf9)) },
        cs \in { <<Some(Cell(Some(<<"5", " ", "1", " ", "A", "B", "R", " ", "C", "O", "N", "T", "R", "O", "L">>)))>>,
                 <<Some(Cell(Some(<<"2", "1", " ", "1", " ", "A", "B", "R">>))),
                   Some(Cell(Some(<<"5", " ", "1", " ", "A", "B", "R", " ", "C", "O", "N", "T", "R", "O", "L">>)))>>,
                 <<Some(Cell(Some(<<"5", " ", "1", " ", "A", "B", "R", " ", "C", "O", "N", "T", "R", "O", "L">>))),
                   Some(Cell(Some(<<"2", "5", " ", "A", "B", "R", " ", "C", "O", "N", "T", "R", "O", "L">>)))>> }}

Documents == CalendarDocs \cup GateDocs \cup RuvDocs \cup ControlDocs

Init ==
    /\ document \in Documents
    /\ now \in Clocks
    /\ response = Pending
    /\ cell_args = Idle /\ cell_ret = Idle
    /\ conf_args = Idle /\ conf_ret = Idle

IniciarExtraccion ==
    /\ response = Pending
    /\ response' = iniciar_extraccion(document, now)
    /\ UNCHANGED <<document, now, cell_args, cell_ret, conf_args, conf_ret>>

Next == IniciarExtraccion

Spec == Init /\ [][Next]_vars

\* ------------------------------------------------------------------------
\* What the request of the current state reads, for the properties below
\* ------------------------------------------------------------------------
Answered == response.kind \in {"AnalisisResponse", "HTTPException"}
Accepted == response.kind = "AnalisisResponse"
Rejected(detail) == response = [kind |-> "HTTPException", status |-> 400, detail |-> detail]

\* the report date and the next-visit date as the two header fields state them
DtInformeLido ==
    LET campo == document["fecha visita"]
    IN IF IsSome(campo) THEN parsear_data(extraer_data(Val(campo).content)) ELSE None
DtProxLido ==
    LET campo == document["prox visit"]
    IN IF IsSome(campo) THEN parsear_data(extraer_data(Val(campo).content)) ELSE None
DataReferencia == IF IsSome(DtInformeLido) THEN Val(DtInformeLido) ELSE now

\* the dosage table as the loops leave it, before the emptiness gate
TaboaLida ==
    TaboaDose(document, DataReferencia[1], DataReferencia[2], DtProxLido)

\* the four gates, each on its own
GateConfianza == FloatLess(calcular_confianza_media(Confidences(document)), Frac(6, 10))
GateVisita == IsSome(DtProxLido) /\ DateLess(Val(DtProxLido), DataReferencia)
GateCalendario == LET t == TaboaLida IN t.kind = "ok" /\ t.lista_doses = <<>>
GateInr == ValidarInr(document).kind = "HTTPException"

\* the place in the order of the gate a rejection names
GateOf(detail) ==
    CASE detail = "LowGlobalConfidence" -> 1
      [] detail = "InconsistentVisitDates" -> 2
      [] detail = "EmptyCalendar" -> 3
      [] detail \in {"InvalidInrFormat", "InrOutOfRange", "LowInrConfidence"} -> 4

\* C1: the gates are reported in the order confidence, visit dates, empty
\* calendar, INR: a document that violates several gates is rejected by the
\* earliest of them, and no gate is reported while an earlier one is violated.
C1_GateOrder ==
    Answered =>
        LET g1 == GateConfianza
            g2 == GateVisita
            g3 == GateCalendario
            g4 == GateInr
            several == \/ g1 /\ (g2 \/ g3 \/ g4)
                       \/ g2 /\ (g3 \/ g4)
                       \/ g3 /\ g4
            first == IF g1 THEN 1 ELSE IF g2 THEN 2 ELSE IF g3 THEN 3 ELSE IF g4 THEN 4 ELSE 0
            reported == IF response.kind = "HTTPException" /\ response.status = 400
                        THEN GateOf(response.detail) ELSE 0
        IN /\ several => reported = first
           /\ reported /= 0 => reported = first

\* all four gates violated at once, and the confidence gate reported
C1_Witness ==
    /\ GateConfianza /\ GateVisita /\ GateCalendario /\ GateInr
    /\ Rejected("LowGlobalConfidence")

DateOf(e) == Val(parsear_data(Some(e.data)))

\* C2: the calendar returned is non-decreasing in date.
C2_CalendarSorted ==
    Accepted =>
        \A i \in 1..(Len(response.calendario) - 1) :
            ~DateLess(DateOf(response.calendario[i + 1]), DateOf(response.calendario[i]))

\* a table whose events were out of order, one of them a control event moved
\* to the next-visit date
C2_Witness ==
    /\ Accepted
    /\ \E i \in 1..(Len(TaboaLida.lista_doses) - 1) :
          StrLess(TaboaLida.lista_doses[i + 1].data, TaboaLida.lista_doses[i].data)
    /\ \E i \in 1..Len(response.calendario) :
          /\ response.calendario[i].eControl
          /\ response.avisos[i]

\* C4: with a next-visit date parsed, every control event of the calendar is
\* dated on it, and every event's dia is the day of its date.
C4_ControlOnNextVisit ==
    Accepted =>
        \A i \in 1..Len(response.calendario) :
            LET e == response.calendario[i]
            IN /\ e.dia = DateOf(e)[3]
               /\ (IsSome(DtProxLido) /\ e.eControl) =>
                     /\ e.data = IsoFormat(Val(DtProxLido))
                     /\ e.dia = Val(DtProxLido)[3]

\* a cell read through its month (21 April) that says CONTROL, moved to the
\* next visit of 5 April
C4_Witness ==
    /\ Accepted /\ IsSome(DtProxLido)
    /\ \E i \in 1..Len(response.calendario) :
          LET e == response.calendario[i]
          IN /\ e.eControl /\ e.accion = "NON TOMAR"
             /\ e.data = IsoFormat(Val(DtProxLido))
             /\ e.dia /= 21

Populated(o) == IsSome(o) /\ Val(o) /= <<>>

\* C6: every historical record returned has date or INR populated with
\* non-empty content.
C6_HistoricoPopulated ==
    Accepted =>
        \A i \in 1..Len(response.historico) :
            Populated(response.historico[i]["data"]) \/ Populated(response.historico[i]["inr"])

\* the cells of the dosage table that parse_dose_cell turns into an event
CelasLidas ==
    LET campo == document["DOSE"]
        cells == IF IsSome(campo) /\ IsSome(Val(campo).value_array)
                 THEN CellsOfTable(Val(Val(campo).value_array)) ELSE <<>>
    IN SelectSeq(cells, LAMBDA c :
            parse_dose_cell(c.content, DataReferencia[1], DataReferencia[2], DtProxLido).kind
                = "dict")

\* C7: with the other gates passing, the calendar holds exactly one event for
\* each cell that parses and none for any other cell; the request is rejected
\* as EmptyCalendar exactly when no cell parses, and a cell that does not parse
\* never fails the request.
C7_OneEventPerParsedCell ==
    (Answered /\ ~GateConfianza /\ ~GateVisita /\ ValidarInr(document).kind = "ok") =>
        IF CelasLidas = <<>> THEN Rejected("EmptyCalendar")
        ELSE /\ Accepted
             /\ Len(response.calendario) = Len(CelasLidas)
             /\ \A c \in {CelasLidas[i] : i \in 1..Len(CelasLidas)} :
                   Cardinality({i \in 1..Len(response.calendario) :
                                   response.calendario[i].diaSemanaTexto = c.dia_sem})
                   = Cardinality({i \in 1..Len(CelasLidas) : CelasLidas[i].dia_sem = c.dia_sem})

\* the INR field as the claim reads it
InrTexto == get_text(document, "inr")
InrNumero ==
    LET v == ParseFloat(Strip(CommaToDot(Val(InrTexto))))
    IN IF IsSome(v) /\ Val(v).kind = "num" THEN v ELSE None
InrEnRango ==
    /\ ~FloatLess(Val(InrNumero), Frac(5, 10))
    /\ ~FloatLess(Frac(10, 1), Val(InrNumero))
InrConfianza == Val(document["inr"]).confidence

\* C8: with the earlier gates passed, a non-empty INR text is rejected for its
\* format, else for its range, else for a field confidence below 0.8, else
\* accepted; the outcome is never an internal error, whether the field carries
\* a confidence or not; an absent or empty INR is not checked.
C8_InrTotal ==
    (Answered /\ ~GateConfianza /\ ~GateVisita
     /\ TaboaLida.kind = "ok" /\ TaboaLida.lista_doses /= <<>>) =>
        IF ~Populated(InrTexto) THEN Accepted
        ELSE IF IsNone(InrNumero) THEN Rejected("InvalidInrFormat")
        ELSE IF ~InrEnRango THEN Rejected("InrOutOfRange")
        ELSE IF IsSome(InrConfianza)
        THEN (IF FloatLess(Val(InrConfianza), Frac(8, 10))
              THEN Rejected("LowInrConfidence") ELSE Accepted)
        ELSE Accepted \/ Rejected("LowInrConfidence")

\* C9: past the confidence gate, the request is rejected as
\* InconsistentVisitDates exactly when a next-visit date was parsed and it is
\* strictly earlier than the report date (the current date when there is no
\* report date), and the rejection carries no calendar, history or header.
C9_VisitGate ==
    (Answered /\ ~GateConfianza) =>
        /\ (response.kind = "HTTPException" /\ response.detail = "InconsistentVisitDates")
              <=> (IsSome(DtProxLido) /\ DateLess(Val(DtProxLido), DataReferencia))
        /\ (response.kind = "HTTPException" /\ response.detail = "InconsistentVisitDates")
              => /\ response.status = 400
                 /\ DOMAIN response = {"kind", "status", "detail"}

\* a next visit before the current date, in a document without a report date,
\* is rejected
C9_Witness ==
    /\ Answered /\ ~GateConfianza
    /\ IsNone(DtInformeLido) /\ IsSome(DtProxLido)
    /\ Rejected("InconsistentVisitDates")

\* the events parse_dose_cell builds from the cells, each as the calendar would
\* hold it unmoved, with the text of its cell
RECURSIVE EventosDe(_, _, _)
EventosDe(cells, ref, prox) ==
    IF cells = <<>> THEN <<>>
    ELSE LET d == parse_dose_cell(cells[1].content, ref[1], ref[2], prox)
         IN (IF d.kind = "dict"
             THEN <<[event |-> [data |-> d.data, dia |-> d.dia, dose |-> d.dose,
                                accion |-> d.accion, eControl |-> d.control,
                                diaSemanaTexto |-> cells[1].dia_sem],
                     content |-> cells[1].content]>>
             ELSE <<>>)
            \o EventosDe(Tail(cells), ref, prox)

\* the unmoved events of the dosage table of the request
EventosLidos ==
    LET campo == document["DOSE"]
    IN IF IsSome(campo) /\ IsSome(Val(campo).value_array)
       THEN EventosDe(CellsOfTable(Val(Val(campo).value_array)), DataReferencia, DtProxLido)
       ELSE <<>>

\* C12: with a next-visit date parsed, the warning of reconciliation is
\* emitted for exactly the control events whose own parsed date differs from
\* the next-visit date: as many warnings as such events, and none for a
\* control event already dated on the next visit.
C12_ReconcileOnlyOnMismatch ==
    (Accepted /\ IsSome(DtProxLido)) =>
        LET own == EventosLidos
            prox == IsoFormat(Val(DtProxLido))
        IN Cardinality({i \in 1..Len(response.avisos) : response.avisos[i]})
              = Cardinality({i \in 1..Len(own) :
                                own[i].event.eControl /\ own[i].event.data /= prox})

\* the event stands in the calendar as often as among the unmoved events
KeepsOwnDate(e, own) ==
    Cardinality({j \in 1..Len(response.calendario) : response.calendario[j] = e})
        = Cardinality({j \in 1..Len(own) : own[j].event = e})

\* C14 as stated: every event of the calendar flagged eControl has action
\* CONTROL and no dose, and every TOMAR or NON TOMAR event keeps the date
\* parsed from its own cell, a cell with both NO TOMAR and CONTROL included.
C14_OnlyControlMoved ==
    Accepted =>
        LET own == EventosLidos
        IN \A i \in 1..Len(response.calendario) :
              LET e == response.calendario[i]
              IN /\ e.eControl => (e.accion = "CONTROL" /\ IsNone(e.dose))
                 /\ e.accion \in {"TOMAR", "NON TOMAR"} => KeepsOwnDate(e, own)

\* C14 amended: only events flagged eControl are moved.  An event that is not
\* flagged keeps the date parsed from its own cell, and no TOMAR event is
\* flagged; a flagged event has action CONTROL and no dose, except the event
\* of a cell that holds both NO TOMAR and CONTROL, which is flagged with action
\* NON TOMAR and dose "0" and is moved like any other flagged event.
C14_OnlyFlaggedMoved ==
    Accepted =>
        LET own == EventosLidos
            prox == DtProxLido
        IN \A i \in 1..Len(response.calendario) :
              LET e == response.calendario[i]
              IN IF e.eControl
                 THEN /\ \/ e.accion = "CONTROL" /\ IsNone(e.dose)
                         \/ e.accion = "NON TOMAR" /\ e.dose = Some(<<"0">>)
                      /\ \E j \in 1..Len(own) :
                            /\ own[j].event.eControl
                            /\ own[j].event.diaSemanaTexto = e.diaSemanaTexto
                            /\ own[j].event.accion = e.accion
                            /\ own[j].event.dose = e.dose
                            /\ e.accion = "NON TOMAR" <=>
                                  Contains(NormText(own[j].content),
                                           <<"N", "O", " ", "T", "O", "M", "A", "R">>)
                      /\ IsSome(prox) => e.data = IsoFormat(Val(prox))
                      /\ IsNone(prox) => KeepsOwnDate(e, own)
                 ELSE KeepsOwnDate(e, own)

\* a calendar with a TOMAR event on the date of its own cell beside the event
\* of a NO TOMAR CONTROL cell of another date, moved to the next visit
C14_Witness ==
    /\ Accepted /\ IsSome(DtProxLido)
    /\ LET own == EventosLidos
           prox == IsoFormat(Val(DtProxLido))
       IN \E i, j \in 1..Len(response.calendario) :
             /\ response.calendario[i].eControl
             /\ response.calendario[i].accion = "NON TOMAR"
             /\ response.calendario[i].data = prox
             /\ \A k \in 1..Len(own) : own[k].event.eControl => own[k].event.data /= prox
             /\ ~response.calendario[j].eControl
             /\ response.calendario[j].accion = "TOMAR"
             /\ response.calendario[j].data /= prox

====
